---------------------------- MODULE Spec2Model ----------------------------
(***************************************************************************)
(* Model of docs/examples/registering_custom_type.ipynb: the FunctionSchema*)
(* registered for pd.DataFrame (name, parameters, parse_args,              *)
(* serialize_args), the round-trip cell and the prompt-function cell.      *)
(*                                                                         *)
(* Python objects are tagged records [t |-> <type>, v |-> <payload>];      *)
(* str payloads and JSON texts are sequences of one-character strings, so  *)
(* that json.dumps / json.loads are modelled on the text they really       *)
(* produce and consume.  A raised exception is the value Raise(<class>).   *)
(***************************************************************************)
EXTENDS Integers, Sequences, FiniteSets, TLC

(***************************************************************************)
(* Python values                                                           *)
(***************************************************************************)
PyNone == [t |-> "NoneType", v |-> 0]
PyNaN == [t |-> "float", v |-> "nan"]
PyBool(b) == [t |-> "bool", v |-> b]
PyInt(n) == [t |-> "int", v |-> n]
PyStr(s) == [t |-> "str", v |-> s]
PyList(items) == [t |-> "list", v |-> items]
\* a dict is its items in insertion order: <<key, value>> pairs, keys unique
PyDict(items) == [t |-> "dict", v |-> items]
Raise(cls) == [t |-> "raise", v |-> cls]

IsRaise(x) == x.t = "raise"

DictKeys(d) == {d.v[i][1] : i \in 1..Len(d.v)}
DictVal(d, k) == d.v[CHOOSE i \in 1..Len(d.v) : d.v[i][1] = k][2]
\* d[k] = val: a new key is appended, an existing key keeps its position
DictSet(items, k, val) ==
    IF \E i \in 1..Len(items) : items[i][1] = k
    THEN [i \in 1..Len(items) |-> IF items[i][1] = k THEN <<k, val>> ELSE items[i]]
    ELSE Append(items, <<k, val>>)
\* dict.__eq__: the same keys with equal values, whatever the insertion order
DictEq(a, b) ==
    /\ a.t = "dict" /\ b.t = "dict"
    /\ DictKeys(a) = DictKeys(b)
    /\ \A k \in DictKeys(a) : DictVal(a, k) = DictVal(b, k)

RECURSIVE SeqJoin(_, _)
\* sep.join(parts) on sequences of characters
SeqJoin(parts, sep) ==
    IF parts = <<>> THEN <<>>
    ELSE IF Len(parts) = 1 THEN parts[1]
    ELSE parts[1] \o sep \o SeqJoin(Tail(parts), sep)

(***************************************************************************)
(* json.dumps with its default separators (", " and ": ")                  *)
(***************************************************************************)
Digits == <<"0", "1", "2", "3", "4", "5", "6", "7", "8", "9">>
DigitSet == {Digits[i] : i \in 1..10}
DigitVal(c) == (CHOOSE i \in 1..10 : Digits[i] = c) - 1

RECURSIVE NatText(_)
NatText(n) == IF n < 10 THEN <<Digits[n + 1]>>
              ELSE NatText(n \div 10) \o <<Digits[(n % 10) + 1]>>
IntText(n) == IF n < 0 THEN <<"-">> \o NatText(-n) ELSE NatText(n)

\* json.encoder escapes the quote and the backslash (and control characters)
EscapeChar(c) ==
    CASE c = "\"" -> <<"\\", "\"">>
      [] c = "\\" -> <<"\\", "\\">>
      [] c = "\n" -> <<"\\", "n">>
      [] c = "\t" -> <<"\\", "t">>
      [] c = "\r" -> <<"\\", "r">>
      [] c = "\f" -> <<"\\", "f">>
      [] OTHER -> <<c>>
StrText(s) == <<"\"">> \o SeqJoin([i \in 1..Len(s) |-> EscapeChar(s[i])], <<>>) \o <<"\"">>

RECURSIVE json_dumps(_)
json_dumps(x) ==
    CASE x.t = "NoneType" -> <<"n", "u", "l", "l">>
      [] x.t = "bool" -> IF x.v THEN <<"t", "r", "u", "e">> ELSE <<"f", "a", "l", "s", "e">>
      [] x.t = "int" -> IntText(x.v)
      [] x.t = "float" /\ x.v = "nan" -> <<"N", "a", "N">>
      [] x.t = "str" -> StrText(x.v)
      [] x.t = "list" ->
            <<"[">> \o SeqJoin([i \in 1..Len(x.v) |-> json_dumps(x.v[i])], <<",", " ">>) \o <<"]">>
      [] x.t = "dict" ->
            <<"{">> \o SeqJoin([i \in 1..Len(x.v) |->
                          StrText(x.v[i][1]) \o <<":", " ">> \o json_dumps(x.v[i][2])],
                        <<",", " ">>) \o <<"}">>

(***************************************************************************)
(* json.loads: a recursive-descent scanner over the text.  Each Scan*      *)
(* returns [ok, val, pos]: whether a value was read, the value, and the    *)
(* index of the first character after it.  Numbers are integers; the       *)
(* texts the model feeds it hold no fraction, exponent, Infinity, \b or    *)
(* \u escape, and those constructs have no value here.                     *)
(***************************************************************************)
Whitespace == {" ", "\t", "\n", "\r"}
ControlChars == {"\t", "\n", "\r", "\f"}
ScanFail == [ok |-> FALSE, val |-> PyNone, pos |-> 0]
ScanOk(val, pos) == [ok |-> TRUE, val |-> val, pos |-> pos]

RECURSIVE SkipWs(_, _)
SkipWs(text, i) ==
    IF i <= Len(text) /\ text[i] \in Whitespace THEN SkipWs(text, i + 1) ELSE i

HasAt(text, i, lit) ==
    /\ i + Len(lit) - 1 <= Len(text)
    /\ \A k \in 1..Len(lit) : text[i + k - 1] = lit[k]

Infinity == <<"I", "n", "f", "i", "n", "i", "t", "y">>

Unescape(c) ==
    CASE c \in {"\"", "\\", "/"} -> c
      [] c = "n" -> "\n"
      [] c = "t" -> "\t"
      [] c = "r" -> "\r"
      [] c = "f" -> "\f"

RECURSIVE ScanString(_, _, _)
\* i is the index after the opening quote, acc the characters read so far
ScanString(text, i, acc) ==
    IF i > Len(text) THEN ScanFail
    ELSE IF text[i] = "\"" THEN ScanOk(acc, i + 1)
    ELSE IF text[i] \in ControlChars THEN ScanFail
    ELSE IF text[i] = "\\" THEN
        IF i + 1 > Len(text) THEN ScanFail
        ELSE IF text[i + 1] \in {"\"", "\\", "/", "n", "t", "r", "f"}
            THEN ScanString(text, i + 2, Append(acc, Unescape(text[i + 1])))
        ELSE IF text[i + 1] \notin {"b", "u"} THEN ScanFail
        ELSE CHOOSE unmodelled \in {} : TRUE
    ELSE ScanString(text, i + 1, Append(acc, text[i]))

RECURSIVE ScanDigits(_, _, _)
ScanDigits(text, i, n) ==
    IF i <= Len(text) /\ text[i] \in DigitSet
    THEN ScanDigits(text, i + 1, 10 * n + DigitVal(text[i]))
    ELSE [val |-> n, pos |-> i]

\* -?(0|[1-9][0-9]*)
ScanNumber(text, i) ==
    LET neg == text[i] = "-"
        j == IF neg THEN i + 1 ELSE i
    IN  IF neg /\ HasAt(text, j, Infinity) THEN CHOOSE unmodelled \in {} : TRUE
        ELSE IF j > Len(text) \/ text[j] \notin DigitSet THEN ScanFail
        ELSE LET d == IF text[j] = "0" THEN [val |-> 0, pos |-> j + 1]
                      ELSE ScanDigits(text, j, 0)
             IN  IF d.pos <= Len(text) /\ text[d.pos] \in {".", "e", "E"}
                 THEN CHOOSE unmodelled \in {} : TRUE
                 ELSE ScanOk(PyInt(IF neg THEN -d.val ELSE d.val), d.pos)

RECURSIVE ScanValue(_, _)
RECURSIVE ScanElements(_, _, _)
RECURSIVE ScanMembers(_, _, _)

\* i is the index of the value's first character
ScanValue(text, i) ==
    IF i > Len(text) THEN ScanFail
    ELSE CASE text[i] = "\"" ->
                LET s == ScanString(text, i + 1, <<>>)
                IN  IF s.ok THEN ScanOk(PyStr(s.val), s.pos) ELSE ScanFail
           [] text[i] = "{" ->
                LET j == SkipWs(text, i + 1)
                IN  IF j <= Len(text) /\ text[j] = "}" THEN ScanOk(PyDict(<<>>), j + 1)
                    ELSE ScanMembers(text, j, <<>>)
           [] text[i] = "[" ->
                LET j == SkipWs(text, i + 1)
                IN  IF j <= Len(text) /\ text[j] = "]" THEN ScanOk(PyList(<<>>), j + 1)
                    ELSE ScanElements(text, j, <<>>)
           [] text[i] = "n" ->
                IF HasAt(text, i, <<"n", "u", "l", "l">>) THEN ScanOk(PyNone, i + 4) ELSE ScanFail
           [] text[i] = "t" ->
                IF HasAt(text, i, <<"t", "r", "u", "e">>) THEN ScanOk(PyBool(TRUE), i + 4)
                ELSE ScanFail
           [] text[i] = "f" ->
                IF HasAt(text, i, <<"f", "a", "l", "s", "e">>) THEN ScanOk(PyBool(FALSE), i + 5)
                ELSE ScanFail
           [] text[i] = "N" ->
                IF HasAt(text, i, <<"N", "a", "N">>) THEN ScanOk(PyNaN, i + 3) ELSE ScanFail
           [] text[i] = "I" ->
                IF HasAt(text, i, Infinity) THEN CHOOSE unmodelled \in {} : TRUE ELSE ScanFail
           [] text[i] \in DigitSet \union {"-"} -> ScanNumber(text, i)
           [] OTHER -> ScanFail

\* i is the index of the next element's first character, acc the elements read
ScanElements(text, i, acc) ==
    LET e == ScanValue(text, i)
    IN  IF ~e.ok THEN ScanFail
        ELSE LET j == SkipWs(text, e.pos)
             IN  IF j > Len(text) THEN ScanFail
                 ELSE IF text[j] = "]" THEN ScanOk(PyList(Append(acc, e.val)), j + 1)
                 ELSE IF text[j] = "," THEN
                     ScanElements(text, SkipWs(text, j + 1), Append(acc, e.val))
                 ELSE ScanFail

\* i is the index of the next member's key, acc the items read
ScanMembers(text, i, acc) ==
    IF i > Len(text) \/ text[i] # "\"" THEN ScanFail
    ELSE LET k == ScanString(text, i + 1, <<>>)
         IN  IF ~k.ok THEN ScanFail
             ELSE LET c == SkipWs(text, k.pos)
                  IN  IF c > Len(text) \/ text[c] # ":" THEN ScanFail
                      ELSE LET e == ScanValue(text, SkipWs(text, c + 1))
                           IN  IF ~e.ok THEN ScanFail
                               ELSE LET j == SkipWs(text, e.pos)
                                        items == DictSet(acc, k.val, e.val)
                                    IN  IF j > Len(text) THEN ScanFail
                                        ELSE IF text[j] = "}" THEN ScanOk(PyDict(items), j + 1)
                                        ELSE IF text[j] = "," THEN
                                            ScanMembers(text, SkipWs(text, j + 1), items)
                                        ELSE ScanFail

\* json.loads(text): the value, or JSONDecodeError (also for trailing data)
json_loads(text) ==
    LET r == ScanValue(text, SkipWs(text, 1))
    IN  IF ~r.ok THEN Raise("JSONDecodeError")
        ELSE IF SkipWs(text, r.pos) # Len(text) + 1 THEN Raise("JSONDecodeError")
        ELSE r.val

(***************************************************************************)
(* pandas.DataFrame as the notebook uses it.  A frame is its row labels,   *)
(* its column labels and one array per column (pandas stores columns);     *)
(* every array has one entry per row label.                                *)
(***************************************************************************)
PyDataFrame(index, columns, arrays) ==
    [t |-> "DataFrame", v |-> [index |-> index, columns |-> columns, arrays |-> arrays]]

\* RangeIndex(n): the labels 0 .. n-1
default_index(n) == [i \in 1..n |-> PyInt(i - 1)]

K_data == <<"d", "a", "t", "a">>
K_index == <<"i", "n", "d", "e", "x">>
K_columns == <<"c", "o", "l", "u", "m", "n", "s">>
K_dtype == <<"d", "t", "y", "p", "e">>
K_copy == <<"c", "o", "p", "y">>
\* the keyword parameters of DataFrame.__init__
ConstructorParams == {K_data, K_index, K_columns, K_dtype, K_copy}

IsScalar(x) == x.t \in {"int", "str", "bool", "float"}
IsLabels(x) == x.t = "list" /\ \A i \in 1..Len(x.v) : IsScalar(x.v[i])
Max(S) == CHOOSE m \in S : \A k \in S : k <= m

\* kwargs.get(k), None when the keyword is not passed
Kwarg(kwargs, k) == IF k \in DictKeys(kwargs) THEN DictVal(kwargs, k) ELSE PyNone

\* the frame built from n rows of the given width; rows[i][j] is row i, column j
FrameFromRows(rows, width, index, columns) ==
    LET n == Len(rows)
        cols == IF columns.t = "NoneType" THEN default_index(width) ELSE columns.v
        idx == IF index.t = "NoneType" THEN default_index(n) ELSE index.v
    IN  \* the labels must match the rows' width and, when there is a column
        \* array to check it against, their number
        IF Len(cols) # width THEN Raise("ValueError")
        ELSE IF width > 0 /\ Len(idx) # n THEN Raise("ValueError")
        ELSE PyDataFrame(idx, cols, [j \in 1..width |-> [i \in 1..n |-> rows[i][j]]])

\* pd.DataFrame(**kwargs) for kwargs read from JSON.  data is None, a scalar,
\* a list of scalars or a list of lists; index and columns are None or lists
\* of scalar labels; dtype and copy are left at their defaults.  A dict or a
\* list of dicts as data, and nested labels, have no arm here.
pd_DataFrame(kwargs) ==
    IF kwargs.t # "dict" THEN Raise("TypeError")
    ELSE IF ~(DictKeys(kwargs) \subseteq ConstructorParams) THEN Raise("TypeError")
    ELSE LET data == Kwarg(kwargs, K_data)
             index == Kwarg(kwargs, K_index)
             columns == Kwarg(kwargs, K_columns)
         IN  CASE Kwarg(kwargs, K_dtype) = PyNone /\ Kwarg(kwargs, K_copy) = PyNone ->
                CASE index.t # "NoneType" /\ IsScalar(index) -> Raise("TypeError")
                  [] columns.t # "NoneType" /\ IsScalar(columns) -> Raise("TypeError")
                  [] (index.t = "NoneType" \/ IsLabels(index))
                       /\ (columns.t = "NoneType" \/ IsLabels(columns)) ->
                    CASE data.t = "NoneType" \/ data = PyList(<<>>) ->
                            \* no data: every cell of index x columns is NaN
                            LET idx == IF index.t = "NoneType" THEN <<>> ELSE index.v
                                cols == IF columns.t = "NoneType" THEN <<>> ELSE columns.v
                            IN  PyDataFrame(idx, cols,
                                    [j \in 1..Len(cols) |-> [i \in 1..Len(idx) |-> PyNaN]])
                      [] IsScalar(data) ->
                            \* a scalar fills the frame, and needs both axes
                            IF index.t = "NoneType" \/ columns.t = "NoneType"
                            THEN Raise("ValueError")
                            ELSE PyDataFrame(index.v, columns.v,
                                    [j \in 1..Len(columns.v) |-> [i \in 1..Len(index.v) |-> data]])
                      [] data.t = "list" /\ data # PyList(<<>>) /\ data.v[1].t = "list" ->
                            \* rows: shorter rows are padded with None
                            IF \E i \in 1..Len(data.v) : data.v[i].t # "list"
                            THEN Raise("TypeError")
                            ELSE LET width == Max({Len(data.v[i].v) : i \in 1..Len(data.v)})
                                     rows == [i \in 1..Len(data.v) |->
                                                [j \in 1..width |->
                                                    IF j <= Len(data.v[i].v) THEN data.v[i].v[j]
                                                    ELSE PyNone]]
                                 IN  FrameFromRows(rows, width, index, columns)
                      [] data.t = "list" /\ data # PyList(<<>>) /\ IsScalar(data.v[1]) ->
                            \* a one-dimensional list is one column
                            IF \E i \in 1..Len(data.v) : ~IsScalar(data.v[i])
                            THEN Raise("ValueError")
                            ELSE FrameFromRows([i \in 1..Len(data.v) |-> <<data.v[i]>>], 1,
                                               index, columns)

(***************************************************************************)
(* DataFrameFunctionSchema                                                 *)
(***************************************************************************)
\* a name with a character function calling rejects
name_with_space == <<"d", "a", "t", "a", " ", "f", "r", "a", "m", "e">>

\* the name property
name == <<"d", "a", "t", "a", "f", "r", "a", "m", "e">>

\* the characters and the length the name's docstring allows
NameChars ==
    {"a", "b", "c", "d", "e", "f", "g", "h", "i", "j", "k", "l", "m",
     "n", "o", "p", "q", "r", "s", "t", "u", "v", "w", "x", "y", "z",
     "A", "B", "C", "D", "E", "F", "G", "H", "I", "J", "K", "L", "M",
     "N", "O", "P", "Q", "R", "S", "T", "U", "V", "W", "X", "Y", "Z",
     "0", "1", "2", "3", "4", "5", "6", "7", "8", "9", "_", "-"}
MaxNameLen == 64

\* the parameters property: a JSON Schema object
parameters ==
    [properties |->
        [columns |-> [type |-> "array", items |-> [type |-> "string"]],
         data |-> [type |-> "array",
                   items |-> [type |-> "array", items |-> [type |-> "string"]]]],
     required |-> <<"index", "columns", "data">>,
     type |-> "object"]

\* the argument key a property or required name stands for
KeyOf(p) ==
    CASE p = "index" -> K_index
      [] p = "columns" -> K_columns
      [] p = "data" -> K_data

Range(f) == {f[i] : i \in DOMAIN f}

RECURSIVE Conforms(_, _)
\* JSON Schema validation for the two types parameters uses
Conforms(x, schema) ==
    CASE schema.type = "string" -> x.t = "str"
      [] schema.type = "array" ->
            x.t = "list" /\ \A i \in 1..Len(x.v) : Conforms(x.v[i], schema.items)

\* an arguments object that validates against parameters
SatisfiesSchema(a) ==
    /\ parameters.type = "object"
    /\ a.t = "dict"
    /\ \A r \in Range(parameters.required) : KeyOf(r) \in DictKeys(a)
    /\ \A p \in DOMAIN parameters.properties :
          KeyOf(p) \in DictKeys(a) => Conforms(DictVal(a, KeyOf(p)), parameters.properties[p])

RECURSIVE Join_spaced(_)
\* " ".join(chunks): a separator between the chunks
Join_spaced(chunks) ==
    IF chunks = <<>> THEN <<>>
    ELSE IF Len(chunks) = 1 THEN chunks[1]
    ELSE chunks[1] \o <<" ">> \o Join_spaced(Tail(chunks))

RECURSIVE Join(_)
\* "".join(chunks): the chunks' characters, in the order given
Join(chunks) == IF chunks = <<>> THEN <<>> ELSE chunks[1] \o Join(Tail(chunks))

\* a parse_args that swallows a decoding error and returns an empty frame
parse_args_lenient(chunks) ==
    LET args == json_loads(Join(chunks))
    IN  IF IsRaise(args) THEN pd_DataFrame(PyDict(<<>>)) ELSE pd_DataFrame(args)

\* parse_args(chunks): the error of json.loads or of the constructor propagates
parse_args(chunks) ==
    LET args == json_loads(Join(chunks))
    IN  IF IsRaise(args) THEN args ELSE pd_DataFrame(args)

\* value.index.tolist(): the row labels where the column labels belong
columns_tolist_index(value) == value.v.index

\* value.columns.tolist()
columns_tolist(value) == value.v.columns
\* value.to_numpy().tolist(): the cells row by row
to_numpy_tolist(value) ==
    [i \in 1..Len(value.v.index) |->
        PyList([j \in 1..Len(value.v.columns) |-> value.v.arrays[j][i]])]

\* a serialize_args that emits the cells column by column
serialize_args_by_column(value) ==
    PyDict(<< <<K_columns, PyList(columns_tolist(value))>>,
              <<K_data, PyList([j \in 1..Len(value.v.columns) |-> PyList(value.v.arrays[j])])>> >>)

\* serialize_args(value)
serialize_args(value) ==
    PyDict(<< <<K_columns, PyList(columns_tolist(value))>>,
              <<K_data, PyList(to_numpy_tolist(value))>> >>)

(***************************************************************************)
(* magentic.chat_model.function_schema and magentic.prompt: the registry   *)
(* the notebook imports.  Their code is not part of the notebook; they are *)
(* modelled as the specification describes them: a global mapping from a   *)
(* type to the schema class registered for it.                             *)
(***************************************************************************)
SchemaClass == [t |-> "type", v |-> "DataFrameFunctionSchema"]

\* register_function_schema(type_)(cls): records cls for type_, returns cls
register_function_schema(reg, type_, cls) ==
    [registry |-> {e \in reg : e[1] # type_} \union {<<type_, cls>>}, result |-> cls]

\* the schema class registered for a return annotation, None when there is none
function_schema_for(reg, type_) ==
    IF \E e \in reg : e[1] = type_ THEN (CHOOSE e \in reg : e[1] = type_)[2] ELSE PyNone

\* a call of a @prompt function annotated "-> type_": the registered schema
\* parses the argument chunks the model streams
prompt_call(reg, type_, chunks) ==
    LET cls == function_schema_for(reg, type_)
    IN  IF cls = SchemaClass THEN parse_args(chunks) ELSE Raise("TypeError")

(***************************************************************************)
(* Inputs                                                                  *)
(***************************************************************************)
MaxRows == 2
MaxCols == 2
MaxCuts == 1

ColumnLabels == {PyStr(<<"A">>), PyStr(<<"\"", "B">>)}
CellValues == {PyInt(4), PyStr(<<"x">>)}

\* row labels: the default numbering, or the numbering reversed
IndexChoices(n) == {default_index(n), [i \in 1..n |-> PyInt(n - i)]}

\* every frame of at most MaxRows rows and MaxCols columns over these values
DataFrames ==
    UNION {UNION {{PyDataFrame(idx, cols, arrays) :
                      idx \in IndexChoices(r),
                      cols \in [1..c -> ColumnLabels],
                      arrays \in [1..c -> [1..r -> CellValues]]} :
                  c \in 0..MaxCols} :
           r \in 0..MaxRows}

\* the notebook's own df_test
NotebookFrame ==
    PyDataFrame(default_index(3), <<PyStr(<<"A">>), PyStr(<<"B">>)>>,
                << <<PyInt(1), PyInt(2), PyInt(3)>>, <<PyInt(4), PyInt(5), PyInt(6)>> >>)

\* argument objects a model may send: one row of strings under one or two
\* string labels, with or without row labels
CompletionArgs ==
    UNION {{PyDict((IF idx = PyNone THEN <<>> ELSE << <<K_index, idx>> >>)
                   \o << <<K_columns, PyList(cols)>>, <<K_data, PyList(<<PyList(row)>>)>> >>) :
               idx \in {PyNone, PyList(<<PyInt(0)>>), PyList(<<PyInt(7)>>)},
               row \in [1..Len(cols) -> {PyStr(<<"x">>), PyStr(<<"y">>)}]} :
           cols \in {<<PyStr(<<"A">>)>>, <<PyStr(<<"A">>), PyStr(<<"B">>)>>}}

\* texts a model may send that are not the JSON text of such an object
RawCompletions == {
    \* {"columns":["A"],"data":[["x"]
    <<"{", "\"", "c", "o", "l", "u", "m", "n", "s", "\"", ":", "[", "\"", "A", "\"", "]", ",",
      "\"", "d", "a", "t", "a", "\"", ":", "[", "[", "\"", "x", "\"", "]">>,
    \* {'columns':['A']}
    <<"{", "'", "c", "o", "l", "u", "m", "n", "s", "'", ":", "[", "'", "A", "'", "]", "}">>,
    \* {"columns":["A"],}
    <<"{", "\"", "c", "o", "l", "u", "m", "n", "s", "\"", ":", "[", "\"", "A", "\"", "]", ",", "}">>,
    \* {"columns":["A"]}]
    <<"{", "\"", "c", "o", "l", "u", "m", "n", "s", "\"", ":", "[", "\"", "A", "\"", "]", "}", "]">>,
    \* the empty text
    <<>>,
    \* [["x"]]
    <<"[", "[", "\"", "x", "\"", "]", "]">>,
    \* "A"
    <<"\"", "A", "\"">>,
    \* 7
    <<"7">>,
    \* null
    <<"n", "u", "l", "l">>,
    \* {"rows":[["x"]]}
    <<"{", "\"", "r", "o", "w", "s", "\"", ":", "[", "[", "\"", "x", "\"", "]", "]", "}">>,
    \* {"columns":["A"],"data":[["x","y"]]}
    <<"{", "\"", "c", "o", "l", "u", "m", "n", "s", "\"", ":", "[", "\"", "A", "\"", "]", ",",
      "\"", "d", "a", "t", "a", "\"", ":", "[", "[", "\"", "x", "\"", ",", "\"", "y", "\"", "]", "]", "}">>,
    \* {"data":"x"}
    <<"{", "\"", "d", "a", "t", "a", "\"", ":", "\"", "x", "\"", "}">>,
    \* {} with blanks around it
    <<" ", "{", "}", " ">>,
    \* {"columns":["A"]}
    <<"{", "\"", "c", "o", "l", "u", "m", "n", "s", "\"", ":", "[", "\"", "A", "\"", "]", "}">>}

\* iterating a str yields its characters, each a str of length one
StrChunks(text) == [i \in 1..Len(text) |-> <<text[i]>>]

\* the chunks of text cut after the positions cuts[1] <= cuts[2] <= ...;
\* equal cuts, a cut at 0 and a cut at Len(text) give empty chunks
CutAt(text, cuts) ==
    [k \in 1..(Len(cuts) + 1) |->
        SubSeq(text, (IF k = 1 THEN 0 ELSE cuts[k - 1]) + 1,
                     IF k > Len(cuts) THEN Len(text) ELSE cuts[k])]

\* the ways a text arrives: whole, cut in at most MaxCuts places, or by character
Chunkings(text) ==
    {CutAt(text, cuts) :
        cuts \in {c \in UNION {[1..k -> 0..Len(text)] : k \in 0..MaxCuts} :
                    \A i \in 1..(Len(c) - 1) : c[i] <= c[i + 1]}}
    \union {StrChunks(text)}

(***************************************************************************)
(* The notebook.  Cell 1 defines and registers the schema; cell 2 runs the *)
(* round trip; cell 3 calls a prompt function that returns a DataFrame.    *)
(* Cells 2 and 3 share no variable: a run executes one of them after       *)
(* cell 1.                                                                 *)
(***************************************************************************)
VARIABLES
    pc,                       \* the next statement of the notebook
    registry,                 \* the schema registry: <<type, class>> pairs
    DataFrameFunctionSchema,  \* what the decorated name denotes
    function_schema,          \* cell 2: the schema instance
    df_test,                  \* cell 2: the frame
    args,                     \* cell 2: serialize_args(df_test)
    obj,                      \* cell 2: the parsed frame
    llm_args,                 \* cell 3: the argument object the model sent, if any
    llm_text,                 \* cell 3: the text the model generated
    llm_chunks,               \* cell 3: the chunks it arrived in
    ret                       \* cell 3: what list_ingredients returned

vars == <<pc, registry, DataFrameFunctionSchema, function_schema, df_test, args, obj,
          llm_args, llm_text, llm_chunks, ret>>

Init ==
    /\ pc = "cell1"
    /\ registry = {}
    /\ DataFrameFunctionSchema = PyNone
    /\ function_schema = PyNone
    /\ df_test = PyNone
    /\ args = PyNone
    /\ obj = PyNone
    /\ llm_args = PyNone
    /\ llm_text = <<>>
    /\ llm_chunks = <<>>
    /\ ret = PyNone

\* the schema registered for another type: @register_function_schema(pd.Series)
Cell1_RegisterSeries ==
    /\ pc = "cell1"
    /\ LET r == register_function_schema(registry, "Series", SchemaClass)
       IN  /\ registry' = r.registry
           /\ DataFrameFunctionSchema' = r.result
    /\ pc' = "idle"
    /\ UNCHANGED <<function_schema, df_test, args, obj, llm_args, llm_text, llm_chunks, ret>>

\* @register_function_schema(pd.DataFrame) class DataFrameFunctionSchema: ...
Cell1_Register ==
    /\ pc = "cell1"
    /\ LET r == register_function_schema(registry, "DataFrame", SchemaClass)
       IN  /\ registry' = r.registry
           /\ DataFrameFunctionSchema' = r.result
    /\ pc' = "idle"
    /\ UNCHANGED <<function_schema, df_test, args, obj, llm_args, llm_text, llm_chunks, ret>>

\* function_schema = DataFrameFunctionSchema(pd.DataFrame)
Cell2_Instantiate ==
    /\ pc = "idle"
    /\ function_schema' =
          IF DataFrameFunctionSchema = SchemaClass
          THEN [t |-> "DataFrameFunctionSchema", v |-> "DataFrame"]
          ELSE Raise("TypeError")
    /\ pc' = IF DataFrameFunctionSchema = SchemaClass THEN "cell2_frame" ELSE "raised"
    /\ UNCHANGED <<registry, DataFrameFunctionSchema, df_test, args, obj,
                   llm_args, llm_text, llm_chunks, ret>>

\* df_test = pd.DataFrame({...})
Cell2_Frame ==
    /\ pc = "cell2_frame"
    /\ df_test' \in DataFrames \union {NotebookFrame}
    /\ pc' = "cell2_serialize"
    /\ UNCHANGED <<registry, DataFrameFunctionSchema, function_schema, args, obj,
                   llm_args, llm_text, llm_chunks, ret>>

\* args = function_schema.serialize_args(df_test)
Cell2_Serialize ==
    /\ pc = "cell2_serialize"
    /\ args' = serialize_args(df_test)
    /\ pc' = "cell2_parse"
    /\ UNCHANGED <<registry, DataFrameFunctionSchema, function_schema, df_test, obj,
                   llm_args, llm_text, llm_chunks, ret>>

\* obj = function_schema.parse_args(json.dumps(args))
Cell2_Parse ==
    /\ pc = "cell2_parse"
    /\ obj' = parse_args(StrChunks(json_dumps(args)))
    /\ pc' = "done"
    /\ UNCHANGED <<registry, DataFrameFunctionSchema, function_schema, df_test, args,
                   llm_args, llm_text, llm_chunks, ret>>

\* list_ingredients("lasagna"): the model's reply arrives in chunks and the
\* schema registered for the return annotation parses it
Cell3_ListIngredients ==
    /\ pc = "idle"
    /\ \/ \E a \in CompletionArgs :
            /\ llm_args' = a
            /\ llm_text' = json_dumps(a)
       \/ \E text \in RawCompletions :
            /\ llm_args' = PyNone
            /\ llm_text' = text
    /\ llm_chunks' \in Chunkings(llm_text')
    /\ ret' = prompt_call(registry, "DataFrame", llm_chunks')
    /\ pc' = "done"
    /\ UNCHANGED <<registry, DataFrameFunctionSchema, function_schema, df_test, args, obj>>

Next ==
    \/ Cell1_Register
    \/ Cell2_Instantiate
    \/ Cell2_Frame
    \/ Cell2_Serialize
    \/ Cell2_Parse
    \/ Cell3_ListIngredients

Spec == Init /\ [][Next]_vars

(***************************************************************************)
(* Properties                                                              *)
(***************************************************************************)
Cell2Done == pc = "done" /\ obj.t # "NoneType"
Cell3Done == pc = "done" /\ ret.t # "NoneType"

\* C1: for every frame df_test, parse_args(json.dumps(serialize_args(df_test)))
\* is a frame with the same column labels in the same order and the same cell
\* values in the same row order.
C1_RoundTripFromValue ==
    Cell2Done =>
        /\ obj.t = "DataFrame"
        /\ obj.v.columns = df_test.v.columns
        /\ Len(obj.v.index) = Len(df_test.v.index)
        /\ obj.v.arrays = df_test.v.arrays

\* C1 witness: the round trip of a 2 x 2 frame whose columns and rows differ
C1_Witness ==
    /\ Cell2Done
    /\ obj.t = "DataFrame"
    /\ Len(df_test.v.index) = 2
    /\ Len(df_test.v.columns) = 2
    /\ df_test.v.columns[1] # df_test.v.columns[2]
    /\ df_test.v.arrays[1] # df_test.v.arrays[2]
    /\ df_test.v.arrays[1][1] # df_test.v.arrays[1][2]

\* C2: for every arguments object that satisfies parameters (it carries every
\* required key), serialize_args(parse_args(chunks of its JSON text)) equals
\* that arguments object.
C2_RoundTripFromArgs ==
    Cell3Done /\ llm_args.t = "dict" /\ SatisfiesSchema(llm_args) =>
        /\ ret.t = "DataFrame"
        /\ DictEq(serialize_args(ret), llm_args)

\* C3: the round trip preserves the row labels, also when they are not the
\* default numbering 0 .. n-1.
C3_RoundTripKeepsIndex ==
    Cell2Done =>
        /\ obj.t = "DataFrame"
        /\ obj.v.index = df_test.v.index

C5_NameIsIdentifier ==
    function_schema.t = "DataFrameFunctionSchema" =>
        /\ Len(name) >= 1
        /\ Len(name) <= MaxNameLen
        /\ \A i \in 1..Len(name) : name[i] \in NameChars

\* C5 witness: an instance exists and its name has been read
C5_Witness ==
    /\ function_schema.t = "DataFrameFunctionSchema"
    /\ Len(name) = 9

\* C6: when the concatenated chunks are not valid JSON, or are valid JSON that is
\* not an object of DataFrame constructor arguments, parse_args ends with an error
\* and returns no frame.
C6_ParseFailuresPropagate ==
    Cell3Done =>
        LET decoded == json_loads(llm_text)
        IN  (\/ IsRaise(decoded)
             \/ decoded.t # "dict"
             \/ ~(DictKeys(decoded) \subseteq ConstructorParams))
            => IsRaise(ret) /\ ret.t # "DataFrame"

\* C6 witness: a truncated object, cut in two chunks, ended in JSONDecodeError
C6_Witness ==
    /\ Cell3Done
    /\ ret = Raise("JSONDecodeError")
    /\ Len(llm_text) > 20
    /\ Len(llm_chunks) = 2
    /\ llm_chunks[1] # <<>>
    /\ llm_chunks[2] # <<>>

\* C7: parse_args depends only on the concatenation of its chunks, read in the
\* order given: however the text is cut, the result is that of the whole text
\* given as one chunk, and that of the text given character by character.
C7_ChunkingIrrelevant ==
    Cell3Done =>
        /\ ret = parse_args(<<llm_text>>)
        /\ ret = parse_args(StrChunks(llm_text))
        /\ Join(llm_chunks) = llm_text

\* C7 witness: a frame parsed from two non-empty chunks, the cut inside a key
C7_Witness ==
    /\ Cell3Done
    /\ ret.t = "DataFrame"
    /\ Len(llm_chunks) = 2
    /\ Len(llm_chunks[1]) = 4
    /\ llm_chunks[2] # <<>>

\* C8: serialize_args(df) has exactly the keys columns and data; columns is the
\* column labels in order, data has one list per row in row order, each as long
\* as the columns, its j-th element the row's value in the j-th column.
C8_SerializedShape ==
    args.t # "NoneType" =>
        /\ args.t = "dict"
        /\ Len(args.v) = 2
        /\ DictKeys(args) = {K_columns, K_data}
        /\ DictVal(args, K_columns) = PyList(df_test.v.columns)
        /\ LET data == DictVal(args, K_data)
           IN  /\ data.t = "list"
               /\ Len(data.v) = Len(df_test.v.index)
               /\ \A i \in 1..Len(data.v) :
                     /\ data.v[i].t = "list"
                     /\ Len(data.v[i].v) = Len(df_test.v.columns)
                     /\ \A j \in 1..Len(data.v[i].v) : data.v[i].v[j] = df_test.v.arrays[j][i]

\* C8 witness: the notebook's frame serialized, with the printed rows
C8_Witness ==
    /\ df_test = NotebookFrame
    /\ args.t = "dict"
    /\ DictVal(args, K_data) =
          PyList(<<PyList(<<PyInt(1), PyInt(4)>>), PyList(<<PyInt(2), PyInt(5)>>),
                   PyList(<<PyInt(3), PyInt(6)>>)>>)

\* C9: serialize_args(df) contains every key listed in parameters["required"],
\* and each value has the type parameters["properties"] declares for its key.
C9_SerializedConformsToSchema ==
    args.t # "NoneType" =>
        /\ \A r \in Range(parameters.required) : KeyOf(r) \in DictKeys(args)
        /\ \A p \in DOMAIN parameters.properties :
              KeyOf(p) \in DictKeys(args) =>
                  Conforms(DictVal(args, KeyOf(p)), parameters.properties[p])

\* C10: parameters is an object schema in which every name listed in required is
\* declared as a key of properties.
C10_ParametersSelfConsistent ==
    function_schema.t = "DataFrameFunctionSchema" =>
        /\ parameters.type = "object"
        /\ \A r \in Range(parameters.required) : r \in DOMAIN parameters.properties

=============================================================================
